---- MODULE Spec2Model ----
(***************************************************************************)
(* A model of jontwo/bank (src/bank/bank.py): the column normalizer, the   *)
(* ledger writer, the statement reader, the validator and the categorizer. *)
(*                                                                         *)
(* Text (column names, cell text) is a sequence of one-character strings,  *)
(* so that str.strip, str.title, str.lower, the substring test and the CSV *)
(* number formatting are computed character by character.                  *)
(* A table (pandas.DataFrame) is [columns |-> <<name, ...>>,               *)
(* rows |-> << <<value, ...>>, ... >>]: row i holds one value per column.  *)
(***************************************************************************)
EXTENDS Integers, Sequences, FiniteSets, TLC

VARIABLES
    raw,        \* normalizer: the table handed to cleanup_columns
    cleaned,    \* normalizer: the result of cleanup_columns(raw), or NotRun
    ledger,     \* ledger: the ledger file on disk, or NoFile
    lastCall,   \* ledger: the last write_to_csv call and what it found
    readBack,   \* ledger: the result of the last read_from_csv, or NotRun
    lastImport, \* reader: the last import_file call and how it ended
    checked,    \* validator: the table handed to validate
    verdict,    \* validator: what validate returned and printed, or NoVerdict
    store,      \* categorizer: the configuration file and its directory
    statement,  \* categorizer: the ledger calc_outgoings reads
    co,         \* categorizer: the frame of the running calc_outgoings call
    book,       \* excel reader: the workbook read_from_excel opens
    rx          \* excel reader: the frame of the running read_from_excel call

normalizerVars == <<raw, cleaned>>
ledgerVars == <<ledger, lastCall, readBack, lastImport>>
validatorVars == <<checked, verdict>>
categorizerVars == <<store, statement, co>>
excelVars == <<book, rx>>
vars == <<normalizerVars, ledgerVars, validatorVars, categorizerVars, excelVars>>

(***************************************************************************)
(* Bounds of the model.                                                    *)
(***************************************************************************)
MaxRows == 2          \* rows of one incoming dataset
MaxLedgerRows == 3    \* rows the ledger may hold before a further append
MaxPaths == 2         \* paths of one import_file call
MaxMonth == 3         \* validator: months after January 2016 a date may lie in
MaxDates == 3         \* validator: rows of a validated dataset
MaxRuns == 2          \* categorizer: calls of calc_outgoings
MaxErrors == 3        \* excel reader: reports of a missing sheet the model follows

(***************************************************************************)
(* Characters and text.                                                    *)
(***************************************************************************)
Lowers == <<"a","b","c","d","e","f","g","h","i","j","k","l","m",
            "n","o","p","q","r","s","t","u","v","w","x","y","z">>
Uppers == <<"A","B","C","D","E","F","G","H","I","J","K","L","M",
            "N","O","P","Q","R","S","T","U","V","W","X","Y","Z">>
Digits == <<"0","1","2","3","4","5","6","7","8","9">>

\* The characters of the model in code-point order (Python compares text so).
CodeOrder == <<" ", "(", ")", "*", ",", "-", ".", "/">> \o Digits \o <<":">>
             \o Uppers \o Lowers \o <<"£">>

Chars == {CodeOrder[i] : i \in 1..Len(CodeOrder)}
LowerSet == {Lowers[i] : i \in 1..26}
UpperSet == {Uppers[i] : i \in 1..26}
DigitSet == {Digits[i] : i \in 1..10}

\* ord(c), upper-casing and lower-casing, tabulated once over the characters
OrdOf == [c \in Chars |-> CHOOSE i \in 1..Len(CodeOrder) : CodeOrder[i] = c]
UpperOf == [c \in LowerSet |-> Uppers[CHOOSE i \in 1..26 : Lowers[i] = c]]
LowerOf == [c \in UpperSet |-> Lowers[CHOOSE i \in 1..26 : Uppers[i] = c]]
ValueOf == [c \in DigitSet |-> (CHOOSE i \in 1..10 : Digits[i] = c) - 1]

Ord(c) == OrdOf[c]
IsLower(c) == c \in LowerSet
IsUpper(c) == c \in UpperSet
IsCased(c) == IsLower(c) \/ IsUpper(c)
IsDigit(c) == c \in DigitSet

upper(c) == IF IsLower(c) THEN UpperOf[c] ELSE c
lower(c) == IF IsUpper(c) THEN LowerOf[c] ELSE c

\* str.lower()
str_lower(s) == [i \in 1..Len(s) |-> lower(s[i])]

\* str.title(): a cased character is upper-cased when the character before it
\* is not cased, and lower-cased when it is.
RECURSIVE title_from(_, _, _)
title_from(s, i, prevCased) ==
    IF i > Len(s) THEN <<>>
    ELSE LET c == s[i]
             t == IF IsCased(c)
                  THEN (IF prevCased THEN lower(c) ELSE upper(c))
                  ELSE c
         IN  <<t>> \o title_from(s, i + 1, IsCased(c))

str_title(s) == title_from(s, 1, FALSE)

\* str.strip(): leading and trailing white space removed.
RECURSIVE lstrip(_)
lstrip(s) == IF s # <<>> /\ Head(s) = " " THEN lstrip(Tail(s)) ELSE s

RECURSIVE rstrip(_)
rstrip(s) ==
    IF s # <<>> /\ s[Len(s)] = " " THEN rstrip(SubSeq(s, 1, Len(s) - 1)) ELSE s

str_strip(s) == rstrip(lstrip(s))

\* sub in s
contains(s, sub) ==
    \E i \in 1..(Len(s) - Len(sub) + 1) : SubSeq(s, i, i + Len(sub) - 1) = sub

\* s < t, as Python orders text
RECURSIVE str_less(_, _)
str_less(s, t) ==
    IF t = <<>> THEN FALSE
    ELSE IF s = <<>> THEN TRUE
    ELSE IF Head(s) # Head(t) THEN Ord(Head(s)) < Ord(Head(t))
    ELSE str_less(Tail(s), Tail(t))

\* Index.sort_values(): the names in ascending order, repeats kept
RECURSIVE insert_sorted(_, _)
insert_sorted(sorted, x) ==
    IF sorted = <<>> THEN <<x>>
    ELSE IF str_less(x, Head(sorted)) THEN <<x>> \o sorted
    ELSE <<Head(sorted)>> \o insert_sorted(Tail(sorted), x)

RECURSIVE sort_values(_)
sort_values(names) ==
    IF names = <<>> THEN <<>>
    ELSE insert_sorted(sort_values(Tail(names)), Head(names))

Range(f) == {f[i] : i \in DOMAIN f}

(***************************************************************************)
(* Decimal text of a number, and its inverse.                              *)
(***************************************************************************)
RECURSIVE FormatNat(_)
FormatNat(n) ==
    IF n < 10 THEN <<Digits[n + 1]>>
    ELSE FormatNat(n \div 10) \o <<Digits[(n % 10) + 1]>>

FormatNum(n) == IF n < 0 THEN <<"-">> \o FormatNat(-n) ELSE FormatNat(n)

IsNatText(t) == t # <<>> /\ \A i \in 1..Len(t) : IsDigit(t[i])
IsNumText(t) ==
    \/ IsNatText(t)
    \/ t # <<>> /\ Head(t) = "-" /\ IsNatText(Tail(t))

DigitValue(c) == ValueOf[c]

RECURSIVE ParseNat(_)
ParseNat(t) ==
    IF Len(t) = 1 THEN DigitValue(t[1])
    ELSE 10 * ParseNat(SubSeq(t, 1, Len(t) - 1)) + DigitValue(t[Len(t)])

ParseNum(t) == IF Head(t) = "-" THEN -ParseNat(Tail(t)) ELSE ParseNat(t)

(***************************************************************************)
(* Cell values: a number, a text, or missing (NaN).                        *)
(***************************************************************************)
Num(n) == [k |-> "num", n |-> n, s |-> <<>>]
Str(s) == [k |-> "str", n |-> 0, s |-> s]
NaN == [k |-> "nan", n |-> 0, s |-> <<>>]

IsNum(v) == v.k = "num"
IsStr(v) == v.k = "str"
notnull(v) == v.k # "nan"

(***************************************************************************)
(* Column names of the program.                                            *)
(***************************************************************************)
N_Date == <<"D","a","t","e">>
N_Type == <<"T","y","p","e">>
N_Description == <<"D","e","s","c","r","i","p","t","i","o","n">>
N_Amount == <<"A","m","o","u","n","t">>
N_Balance == <<"B","a","l","a","n","c","e">>
N_TransactionDate ==
    <<"T","r","a","n","s","a","c","t","i","o","n"," ","D","a","t","e">>
N_Merchant == <<"M","e","r","c","h","a","n","t">>
N_MerchantDescription == N_Merchant \o <<"/">> \o N_Description
N_BalanceGBP == N_Balance \o <<" ","(","£",")">>
N_DebitCredit == <<"D","e","b","i","t","/","C","r","e","d","i","t">>
N_PaidOut == <<"P","a","i","d"," ","o","u","t">>
N_PaidIn == <<"P","a","i","d"," ","i","n">>
N_BillingAmount == <<"B","i","l","l","i","n","g"," ">> \o N_Amount
N_Unnamed == <<"U","n","n","a","m","e","d">>

COLUMN_NAMES == <<N_Date, N_Type, N_Description, N_Amount, N_Balance>>

\* The keys of COLUMN_TYPES whose type is float.
FloatColumns ==
    {N_Amount, N_Balance, N_BalanceGBP, N_DebitCredit, N_PaidOut, N_PaidIn,
     N_BillingAmount}

ALIASES ==
    << <<N_Merchant, N_Description>>,
       <<N_MerchantDescription, N_Description>>,
       <<N_BalanceGBP, N_Balance>>,
       <<N_DebitCredit, N_Amount>>,
       <<N_PaidOut, N_Amount>>,
       <<N_BillingAmount, N_Amount>>,
       <<N_TransactionDate, N_Date>> >>

(***************************************************************************)
(* Tables.                                                                 *)
(***************************************************************************)
Table(cols, rows) == [columns |-> cols, rows |-> rows]
NRows(df) == Len(df.rows)
NCols(df) == Len(df.columns)
HasColumn(df, name) == \E j \in 1..NCols(df) : df.columns[j] = name
ColIndex(df, name) == CHOOSE j \in 1..NCols(df) : df.columns[j] = name
Cell(df, i, name) == df.rows[i][ColIndex(df, name)]
ColumnSet(df) == Range(df.columns)
Distinct(cols) == \A i, j \in 1..Len(cols) : cols[i] = cols[j] => i = j

\* df with the values of column j replaced by f[i], row by row
SetColumn(df, j, f) ==
    Table(df.columns,
          [i \in 1..NRows(df) |-> [df.rows[i] EXCEPT ![j] = f[i]]])

\* del df[name]
RemoveAt(s, j) == SubSeq(s, 1, j - 1) \o SubSeq(s, j + 1, Len(s))
DelColumn(df, name) ==
    LET j == ColIndex(df, name)
    IN  Table(RemoveAt(df.columns, j),
              [i \in 1..NRows(df) |-> RemoveAt(df.rows[i], j)])

(***************************************************************************)
(* Dates.  A date is the month counted from January 2016 and the day of    *)
(* the month; to_csv writes it as YYYY-MM-DD and pandas.to_datetime reads  *)
(* that form back whatever dayfirst is.                                    *)
(***************************************************************************)
BaseYear == 2016
Dt(ym, d) == [k |-> "date", n |-> 32 * ym + d, s |-> <<>>]
IsDate(v) == v.k = "date"
YearMonth(v) == v.n \div 32
DayOf(v) == v.n % 32

TwoDigits(n) == <<Digits[(n \div 10) + 1], Digits[(n % 10) + 1]>>

FormatDate(v) ==
    FormatNat(BaseYear + (YearMonth(v) \div 12)) \o <<"-">>
    \o TwoDigits((YearMonth(v) % 12) + 1) \o <<"-">> \o TwoDigits(DayOf(v))

IsDateText(t) ==
    /\ Len(t) = 10
    /\ t[5] = "-" /\ t[8] = "-"
    /\ \A i \in {1, 2, 3, 4, 6, 7, 9, 10} : IsDigit(t[i])
    /\ ParseNat(SubSeq(t, 1, 4)) >= BaseYear
    /\ ParseNat(SubSeq(t, 6, 7)) \in 1..12
    /\ ParseNat(SubSeq(t, 9, 10)) \in 1..31

ParseDate(t) ==
    Dt(12 * (ParseNat(SubSeq(t, 1, 4)) - BaseYear) + ParseNat(SubSeq(t, 6, 7)) - 1,
       ParseNat(SubSeq(t, 9, 10)))

(***************************************************************************)
(* cleanup_columns (the Column Normalizer).  The result is the table as    *)
(* the call leaves it, the exception it raised ("" when none), and whether *)
(* it printed a warning.                                                   *)
(***************************************************************************)
\* Python evaluates an expression once and binds its value to a name: F applied
\* to the value of e.
bind(e, F(_)) == CHOOSE r \in {F(v) : v \in {e}} : TRUE

Result(df, raised, warned) == [df |-> df, raised |-> raised, warned |-> warned]

\* df.rename(columns=alias) for each alias of ALIASES in turn
RECURSIVE rename_from(_, _)
rename_from(cols, a) ==
    IF a > Len(ALIASES) THEN cols
    ELSE rename_from([j \in 1..Len(cols) |->
                         IF cols[j] = ALIASES[a][1] THEN ALIASES[a][2] ELSE cols[j]],
                     a + 1)

\* lines 86-89: names stripped, title-cased, then aliased
cleanup_names(cols) ==
    rename_from([j \in 1..Len(cols) |-> str_title(str_strip(cols[j]))], 1)

\* df[col].dtype == object: a column that holds text (or has no rows)
IsObjectColumn(df, j) ==
    NRows(df) = 0 \/ \E i \in 1..NRows(df) : IsStr(df.rows[i][j])

\* Series.str.strip(): text is stripped, anything that is not text becomes NaN
strip_value(v) == IF IsStr(v) THEN Str(str_strip(v.s)) ELSE NaN

\* re.sub(r'[\£,]', '', text)
RECURSIVE remove_currency(_)
remove_currency(t) ==
    IF t = <<>> THEN <<>>
    ELSE IF Head(t) \in {"£", ","} THEN remove_currency(Tail(t))
    ELSE <<Head(t)>> \o remove_currency(Tail(t))

\* pd.to_numeric(Series.replace(r'[\£,]', '', regex=True), errors='coerce')
to_numeric(v) ==
    IF IsStr(v)
    THEN (IF IsNumText(remove_currency(v.s))
          THEN Num(ParseNum(remove_currency(v.s))) ELSE NaN)
    ELSE v

STR_D == Str(<<"D">>)
STR_C == Str(<<"C">>)

\* line 106: the column has a value, and every value it has is D or C
IsDebitCreditColumn(df, j) ==
    /\ \E i \in 1..NRows(df) : notnull(df.rows[i][j])
    /\ \A i \in 1..NRows(df) :
          notnull(df.rows[i][j]) => df.rows[i][j] \in {STR_D, STR_C}

\* unary minus
negate(v) == IF IsNum(v) THEN Num(-v.n) ELSE v

\* line 108: df.loc[df[col] == 'D', 'Balance'] = -df.loc[df[col] == 'D', 'Balance']
set_debit_balances(df, j) ==
    LET b == ColIndex(df, N_Balance)
    IN  SetColumn(df, b,
                  [i \in 1..NRows(df) |->
                      IF df.rows[i][j] = STR_D
                      THEN negate(df.rows[i][b]) ELSE df.rows[i][b]])

\* lines 91-115, for the columns named in todo (the names when the loop began)
RECURSIVE column_loop(_, _)
column_loop(df, todo) ==
    IF todo = <<>> THEN Result(df, "", FALSE)
    ELSE
    LET col == Head(todo)
        j == ColIndex(df, col)
        stripped ==
            IF IsObjectColumn(df, j)
            THEN SetColumn(df, j, [i \in 1..NRows(df) |-> strip_value(df.rows[i][j])])
            ELSE df
        coerced ==
            IF col \in FloatColumns
            THEN SetColumn(stripped, j,
                           [i \in 1..NRows(df) |-> to_numeric(stripped.rows[i][j])])
            ELSE stripped
        sniffed == IsDebitCreditColumn(coerced, j) /\ HasColumn(coerced, N_Balance)
        \* -Series raises TypeError when a selected Balance is still text
        typeError ==
            /\ sniffed
            /\ \E i \in 1..NRows(df) :
                  /\ coerced.rows[i][j] = STR_D
                  /\ IsStr(Cell(coerced, i, N_Balance))
        signed == IF sniffed THEN set_debit_balances(coerced, j) ELSE coerced
        kept == IF contains(col, N_Unnamed) THEN DelColumn(signed, col) ELSE signed
    IN  IF typeError THEN Result(coerced, "TypeError", FALSE)
        ELSE bind(kept, LAMBDA next_df : column_loop(next_df, Tail(todo)))

\* lines 118-120: a 'Paid in' column is negated into 'Amount' and dropped
fold_paid_in(df) ==
    IF ~HasColumn(df, N_PaidIn) THEN df
    ELSE
    LET withAmount ==
            IF HasColumn(df, N_Amount) THEN df
            ELSE Table(Append(df.columns, N_Amount),
                       [i \in 1..NRows(df) |-> Append(df.rows[i], NaN)])
        a == ColIndex(withAmount, N_Amount)
        p == ColIndex(withAmount, N_PaidIn)
    IN  DelColumn(SetColumn(withAmount, a,
                            [i \in 1..NRows(df) |->
                                IF notnull(withAmount.rows[i][p])
                                THEN negate(withAmount.rows[i][p])
                                ELSE withAmount.rows[i][a]]),
                  N_PaidIn)

\* pd.to_datetime(value, dayfirst=True).dt.date of one cell
to_datetime(v) == IF IsStr(v) THEN ParseDate(v.s) ELSE v

\* lines 123-130
parse_date_column(df, continue_on_err) ==
    IF ~HasColumn(df, N_Date) THEN Result(df, "", TRUE)
    ELSE
    LET d == ColIndex(df, N_Date)
        bad == \E i \in 1..NRows(df) :
                  IsStr(df.rows[i][d]) /\ ~IsDateText(df.rows[i][d].s)
    IN  IF bad
        THEN (IF continue_on_err THEN Result(df, "", TRUE)
              ELSE Result(df, "ValueError", FALSE))
        ELSE Result(SetColumn(df, d, [i \in 1..NRows(df) |-> to_datetime(df.rows[i][d])]),
                    "", FALSE)

cleanup_columns(df, continue_on_err) ==
    bind(Table(cleanup_names(df.columns), df.rows), LAMBDA named :
        \* df[col] is a DataFrame, with no dtype, when two columns share a name
        IF ~Distinct(named.columns) THEN Result(named, "AttributeError", FALSE)
        ELSE bind(column_loop(named, named.columns), LAMBDA looped :
             IF looped.raised # "" THEN looped
             ELSE bind(fold_paid_in(looped.df), LAMBDA folded :
                  parse_date_column(folded, continue_on_err))))

(***************************************************************************)
(* The CSV file: a header line and data lines, each a sequence of fields   *)
(* (text).  NoFile is the path that does not exist.                        *)
(***************************************************************************)
NoFile == [header |-> <<>>, lines |-> <<>>, exists |-> FALSE]
CsvFile(header, lines) == [header |-> header, lines |-> lines, exists |-> TRUE]

\* the text DataFrame.to_csv writes for one value
format_cell(v) ==
    CASE IsNum(v) -> FormatNum(v.n)
      [] IsStr(v) -> v.s
      [] IsDate(v) -> FormatDate(v)
      [] OTHER -> <<>>

\* df.to_csv(filepath, encoding='utf-8', index=False)
to_csv(df) ==
    CsvFile(df.columns,
            [i \in 1..NRows(df) |->
                [j \in 1..NCols(df) |-> format_cell(df.rows[i][j])]])

\* pd.read_csv(filepath, skipinitialspace=True, skip_blank_lines=True): a column
\* whose fields are all numbers (or empty) is numeric, any other column is text
\* with NaN for its empty fields
read_csv(file) ==
    LET field(i, j) == lstrip(file.lines[i][j])
        numeric(j) ==
            /\ Len(file.lines) > 0
            /\ \A i \in 1..Len(file.lines) : field(i, j) = <<>> \/ IsNumText(field(i, j))
        value(i, j) ==
            IF field(i, j) = <<>> THEN NaN
            ELSE IF numeric(j) THEN Num(ParseNum(field(i, j)))
            ELSE Str(field(i, j))
    IN  Table([j \in 1..Len(file.header) |-> lstrip(file.header[j])],
              [i \in 1..Len(file.lines) |->
                  [j \in 1..Len(file.header) |-> value(i, j)]])

read_from_csv(file, continue_on_err) ==
    bind(read_csv(file), LAMBDA df : cleanup_columns(df, continue_on_err))

(***************************************************************************)
(* write_to_csv (the Ledger Writer).                                       *)
(***************************************************************************)
lower_sorted(cols) == sort_values([j \in 1..Len(cols) |-> str_lower(cols[j])])

\* the names of a, then the names of b that a does not have
RECURSIVE union_names(_, _)
union_names(a, b) ==
    IF b = <<>> THEN a
    ELSE union_names(IF Head(b) \in Range(a) THEN a ELSE Append(a, Head(b)), Tail(b))

\* the rows of df laid out under the columns cols, NaN where df has no such column
reindex(df, cols) ==
    [i \in 1..NRows(df) |->
        [j \in 1..Len(cols) |->
            IF HasColumn(df, cols[j]) THEN Cell(df, i, cols[j]) ELSE NaN]]

\* pd.concat([a, b], join='inner'): only the columns both tables have
concat_inner(a, b) ==
    LET cols == sort_values(SelectSeq(a.columns, LAMBDA c : c \in Range(b.columns)))
    IN  Table(cols, reindex(a, cols) \o reindex(b, cols))

\* pd.concat([a, b], sort=True): the union of the columns, sorted; a's rows, then b's
concat_sorted(a, b) ==
    LET cols == sort_values(union_names(a.columns, b.columns))
    IN  Table(cols, reindex(a, cols) \o reindex(b, cols))

\* DataFrame.drop_duplicates(): a row equal to an earlier row is dropped
RECURSIVE drop_from(_, _)
drop_from(rows, i) ==
    IF i > Len(rows) THEN <<>>
    ELSE (IF \E h \in 1..(i - 1) : rows[h] = rows[i] THEN <<>> ELSE <<rows[i]>>)
         \o drop_from(rows, i + 1)

drop_duplicates(df) == Table(df.columns, drop_from(df.rows, 1))

\* The file the call leaves and how the call ended: "written", "aborted" (the
\* return of line 192) or "raised".
write_to_csv(df, file, remove_duplicates, check_columns, continue_on_err) ==
    IF file.exists
    THEN bind(read_from_csv(file, FALSE), LAMBDA existing :
         IF existing.raised # "" THEN [file |-> file, outcome |-> "raised"]
         ELSE IF /\ check_columns
                 /\ lower_sorted(existing.df.columns) # lower_sorted(df.columns)
                 /\ ~continue_on_err
         THEN [file |-> file, outcome |-> "aborted"]
         ELSE bind(concat_sorted(existing.df, df), LAMBDA out_df :
              bind(IF remove_duplicates THEN drop_duplicates(out_df) ELSE out_df,
                   LAMBDA final : [file |-> to_csv(final), outcome |-> "written"])))
    ELSE [file |-> to_csv(df), outcome |-> "written"]

(***************************************************************************)
(* Sequences of at most n elements of S.                                   *)
(***************************************************************************)
SeqUpTo(S, n) == UNION {[1..m -> S] : m \in 0..n}

EmptyTable == Table(<<>>, <<>>)
NotRun == Result(EmptyTable, "NotRun", FALSE)
HasRun(r) == r.raised # "NotRun"

(***************************************************************************)
(* The normalizer on its own: a raw table is drawn and cleanup_columns is  *)
(* applied to it.                                                          *)
(***************************************************************************)
STR_E == Str(<<"E">>)
STR_X == Str(<<"X">>)
N_a == <<"a">>
N_c == <<"c">>
N_d == <<"d">>
N_Other == <<"O","t","h","e","r"," "," ">>

\* The alias names of ALIASES, as written, in lower case and with a leading blank.
AliasNames == {ALIASES[a][1] : a \in 1..Len(ALIASES)}
InputNames ==
    AliasNames \cup {str_lower(n) : n \in AliasNames} \cup {<<" ">> \o n : n \in AliasNames}

\* A value a source holds under a column of that name.
SampleValue(name) ==
    LET t == str_title(str_strip(name))
    IN  IF t = N_TransactionDate THEN Str(FormatDate(Dt(2, 10)))
        ELSE IF t \in {N_Merchant, N_MerchantDescription} THEN STR_X
        ELSE Num(1)

NameTables ==
    {Table(<<n, N_Other>>, rows) :
        n \in InputNames, rows \in {<<>>}} 
    \cup {Table(<<n, N_Other>>, << <<SampleValue(n), STR_X>> >>) : n \in InputNames}
    \cup {Table(<<N_Merchant, N_BalanceGBP, N_Other, N_Unnamed>>, <<>>)}

\* The tables of test_set_balance__debit: a balance and two columns that may
\* hold D and C.
SignRows ==
    {<<Num(1), b, c, d>> :
        b \in {Num(2), Num(-3)}, c \in {STR_D, STR_C, STR_E, NaN},
        d \in {STR_D, STR_C, Num(3)}}

SignTables ==
    {Table(<<N_a, N_Balance, N_c, N_d>>, rows) :
        rows \in SeqUpTo(SignRows, MaxRows) \ {<<>>}}

\* A balance still written as text, before and after the column that marks debits.
TextBalanceTables ==
    {Table(cols, << <<c, b>> >>) :
        cols \in {<<N_c, N_Balance>>}, c \in {STR_D, STR_C},
        b \in {Num(2), Str(<<"£","2">>)}}
    \cup {Table(<<N_Balance, N_c>>, << <<b, c>> >>) :
        c \in {STR_D, STR_C}, b \in {Num(2), Str(<<"£","2">>)}}

\* An amount and what was paid in, on some rows only.
PaidInTables ==
    {Table(<<N_Amount, N_PaidIn>>, rows) :
        rows \in SeqUpTo({<<Num(5), Num(3)>>, <<Num(5), NaN>>}, MaxRows) \ {<<>>}}

RawTables == NameTables \cup SignTables \cup TextBalanceTables \cup PaidInTables

(***************************************************************************)
(* The ledger: datasets are written to one path and read back.             *)
(***************************************************************************)
LedgerRows == {<<STR_D, Num(2)>>, <<STR_X, Num(2)>>}
DatedRows == {<<Dt(2, 10), STR_X, Num(2)>>}

LedgerRaw ==
    {Table(<<N_Type, N_Balance>>, rows) : rows \in SeqUpTo(LedgerRows, MaxRows)}
    \cup {Table(<<N_Date, N_Type, N_Balance>>, rows) : rows \in SeqUpTo(DatedRows, MaxRows)}

\* The normalized datasets the callers hand to write_to_csv.
Datasets == {cleanup_columns(r, FALSE).df : r \in LedgerRaw}

NoCall ==
    [df |-> EmptyTable, rd |-> FALSE, cc |-> FALSE, coe |-> FALSE,
     before |-> NoFile, outcome |-> "none"]

NoImport ==
    [paths |-> <<>>, toFile |-> FALSE, unique |-> FALSE, coe |-> FALSE,
     ac |-> EmptyTable, outcome |-> "none"]

\* cleanup_columns(raw, continue_on_err)
CleanupColumns ==
    /\ cleaned = NotRun
    /\ \E coe \in BOOLEAN : cleaned' = cleanup_columns(raw, coe)
    /\ UNCHANGED <<raw, ledgerVars, validatorVars, categorizerVars, excelVars>>

\* write_to_csv(df, path, remove_duplicates, check_columns, continue_on_err)
WriteToCsv ==
    /\ lastCall = NoCall
    /\ readBack = NotRun
    /\ \E df \in Datasets, rd \in BOOLEAN, cc \in BOOLEAN, coe \in BOOLEAN :
        /\ Len(ledger.lines) + NRows(df) <= MaxLedgerRows
        /\ \E done \in {write_to_csv(df, ledger, rd, cc, coe)} :
               /\ ledger' = done.file
               /\ lastCall' =
                    [df |-> df, rd |-> rd, cc |-> cc, coe |-> coe,
                     before |-> ledger, outcome |-> done.outcome]
    /\ UNCHANGED <<normalizerVars, readBack, lastImport, validatorVars, categorizerVars, excelVars>>

\* read_from_csv(path)
ReadFromCsv ==
    /\ ledger.exists
    /\ readBack = NotRun
    /\ readBack' = read_from_csv(ledger, FALSE)
    /\ UNCHANGED <<normalizerVars, ledger, lastCall, lastImport, validatorVars, categorizerVars, excelVars>>

\* The call returns: its arguments and results are gone, the file stays.
Return ==
    /\ lastCall # NoCall \/ readBack # NotRun
    /\ lastCall' = NoCall
    /\ readBack' = NotRun
    /\ UNCHANGED <<normalizerVars, ledger, lastImport, validatorVars, categorizerVars, excelVars>>

(***************************************************************************)
(* read_from_excel (the Header Detector and the sheet loop of the          *)
(* Statement Reader).  A workbook is its sheet names in order and the rows *)
(* of cells of each sheet; the cells of the columns COLUMN_TYPES names     *)
(* hold what the converter of the column leaves as it is (numbers under    *)
(* float, text under str).                                                 *)
(***************************************************************************)
MaxSkip == 10

Workbook(sheet_names, cells) == [sheet_names |-> sheet_names, cells |-> cells]
HasSheet(b, sht) == sht \in Range(b.sheet_names)
SheetRows(b, sht) ==
    b.cells[CHOOSE k \in 1..Len(b.sheet_names) : b.sheet_names[k] = sht]

\* the name the parser gives the column at 0-based position k with no header text
Placeholder(k) == N_Unnamed \o <<":", " ">> \o FormatNat(k)

\* the keys of COLUMN_TYPES whose type is datetime
DatetimeColumns == {N_Date, N_TransactionDate}

\* xl.parse(sht, skiprows=skip, converters=...): the row after the skipped rows
\* names the columns, the rows below it are the data; nothing is left to parse
\* past the last row.  datetime(cell) is a TypeError for every cell.
xl_parse(b, sht, skip, converters) ==
    IF ~HasSheet(b, sht) THEN Result(EmptyTable, "XLRDError", FALSE)
    ELSE bind(SheetRows(b, sht), LAMBDA cells :
         IF skip >= Len(cells) THEN Result(EmptyTable, "", FALSE)
         ELSE bind(Table([j \in 1..Len(cells[skip + 1]) |->
                             IF IsStr(cells[skip + 1][j]) THEN cells[skip + 1][j].s
                             ELSE Placeholder(j - 1)],
                         SubSeq(cells, skip + 2, Len(cells))),
                   LAMBDA df :
                       IF /\ converters
                          /\ NRows(df) > 0
                          /\ \E j \in 1..NCols(df) : df.columns[j] \in DatetimeColumns
                       THEN Result(df, "TypeError", FALSE)
                       ELSE Result(df, "", FALSE)))

\* lines 155-157
unnamed(df) == {j \in 1..NCols(df) : contains(df.columns[j], N_Unnamed)}

\* a test that also passes a table with exactly half of its names unnamed
at_most_half(df) == 2 * Cardinality(unnamed(df)) <= NCols(df)

\* line 158
fewer_than_half(df) == 2 * Cardinality(unnamed(df)) < NCols(df)

\* pd.concat((a, b)): the union of the columns in order of appearance
concat(a, b) ==
    bind(union_names(a.columns, b.columns), LAMBDA cols :
         Table(cols, reindex(a, cols) \o reindex(b, cols)))

NoRead ==
    [pc |-> "idle", names |-> <<>>, count |-> 0, namelist |-> <<>>, at |-> 0,
     skip |-> 0, tries |-> 0, errors |-> 0, used |-> <<>>,
     out_df |-> EmptyTable, raised |-> ""]

\* lines 160-173 once the while loop has settled on df for the sheet
break_with(r, df, fallback, tries) ==
    bind(cleanup_columns(df, FALSE), LAMBDA tidy :
         IF tidy.raised # ""
         THEN [r EXCEPT !.pc = "raised", !.raised = tidy.raised, !.tries = tries]
         ELSE [r EXCEPT
                 !.pc = IF r.at = Len(r.namelist) THEN "done" ELSE "parse",
                 !.at = r.at + 1,
                 !.skip = 0,
                 !.tries = 0,
                 !.errors = 0,
                 !.used = Append(r.used,
                                 [sht |-> r.namelist[r.at],
                                  skip |-> IF fallback THEN 0 ELSE r.skip,
                                  fallback |-> fallback,
                                  tries |-> tries,
                                  df |-> df]),
                 !.out_df = concat(r.out_df, tidy.df)])

\* lines 146-165: one pass of the body of the while loop
while_body(b, r) ==
    bind(xl_parse(b, r.namelist[r.at], r.skip, TRUE), LAMBDA first :
         IF first.raised = "XLRDError"
         THEN [r EXCEPT !.tries = r.tries + 1, !.errors = r.errors + 1]
         ELSE bind(IF first.raised = "TypeError"
                   THEN xl_parse(b, r.namelist[r.at], r.skip, FALSE).df
                   ELSE first.df,
                   LAMBDA df :
              bind(r.tries + (IF first.raised = "TypeError" THEN 2 ELSE 1),
                   LAMBDA tries :
                   IF fewer_than_half(df) THEN break_with(r, df, FALSE, tries)
                   ELSE IF r.skip + 1 > MaxSkip
                   THEN break_with(r, xl_parse(b, r.namelist[r.at], 0, FALSE).df,
                                   TRUE, tries + 1)
                   ELSE [r EXCEPT !.skip = r.skip + 1, !.tries = tries])))

\* lines 134-141: namelist = names or xl.sheet_names, cut to count when given
read_from_excel(b, names, count) ==
    bind(IF names # <<>> THEN names ELSE b.sheet_names, LAMBDA all :
    bind(IF count # 0 /\ count < Len(all) THEN SubSeq(all, 1, count) ELSE all,
         LAMBDA namelist :
         [NoRead EXCEPT
             !.pc = IF namelist = <<>> THEN "done" ELSE "parse",
             !.names = names,
             !.count = count,
             !.namelist = namelist,
             !.at = 1,
             !.out_df = Table(COLUMN_NAMES, <<>>)]))

\* read_from_excel from its call to its return, over sheets the workbook has
RECURSIVE until_return(_, _)
until_return(b, r) ==
    IF r.pc # "parse" THEN r
    ELSE bind(while_body(b, r), LAMBDA after : until_return(b, after))

\* Sheets: a statement, a statement under a title row, a two-column statement
\* under a title row that fills one of the two cells, a statement under eleven
\* title rows, and a note with no statement in it.
S_Jan == <<"J", "a", "n">>
S_Feb == <<"F", "e", "b">>
S_Half == <<"H", "a", "l", "f">>
S_Deep == <<"D", "e", "e", "p">>
S_Note == <<"N", "o", "t", "e">>
S_Zed == <<"Z", "e", "d">>
T_Statement == <<"S", "t", "a", "t", "e", "m", "e", "n", "t">>

TitleRows(n, width) ==
    [i \in 1..n |-> [j \in 1..width |-> IF j = 1 THEN Str(T_Statement) ELSE NaN]]

Book ==
    Workbook(<<S_Jan, S_Feb, S_Half, S_Deep, S_Note>>,
             << << <<Str(N_Date), Str(N_Type), Str(N_Amount)>>,
                   <<Dt(0, 5), Str(<<"X">>), Num(1)>> >>,
                TitleRows(1, 3)
                \o << <<Str(N_Date), Str(N_Description), Str(N_Amount)>>,
                      <<Dt(1, 3), Str(<<"s", "h", "o", "p">>), Num(2)>> >>,
                TitleRows(1, 2)
                \o << <<Str(N_Type), Str(N_Balance)>>,
                      <<Str(<<"X">>), Num(3)>> >>,
                TitleRows(MaxSkip + 1, 2)
                \o << <<Str(N_Type), Str(N_Balance)>>,
                      <<Str(<<"X">>), Num(4)>> >>,
                TitleRows(1, 2) >>)

NameArgs ==
    {<<>>, <<S_Feb>>, <<S_Half, S_Jan>>, <<S_Deep>>, <<S_Note, S_Jan>>,
     <<S_Zed, S_Jan>>, <<S_Jan, S_Zed>>}

ReadFromExcel ==
    /\ rx.pc = "idle"
    /\ \E names \in NameArgs, count \in 0..2 :
           rx' = read_from_excel(book, names, count)
    /\ UNCHANGED <<normalizerVars, ledgerVars, validatorVars, categorizerVars, book>>

ParseSheet ==
    /\ rx.pc = "parse"
    /\ rx.errors < MaxErrors
    /\ \E after \in {while_body(book, rx)} : rx' = after
    /\ UNCHANGED <<normalizerVars, ledgerVars, validatorVars, categorizerVars, book>>

ExcelReturns ==
    /\ rx.pc \in {"done", "raised"}
    /\ rx' = NoRead
    /\ UNCHANGED <<normalizerVars, ledgerVars, validatorVars, categorizerVars, book>>

(***************************************************************************)
(* import_file (the Statement Reader).                                     *)
(***************************************************************************)
F_a == <<"a", ".", "c", "s", "v">>
F_b == <<"b", ".", "C", "S", "V">>
F_c == <<"c", ".", "c", "s", "v">>
F_e == <<"e", ".", "c", "s", "v">>
F_p == <<"p", ".", "p", "d", "f">>
F_x == <<"x", ".", "X", "l", "s", "x">>
SourcePaths == {F_a, F_b, F_c, F_e, F_p, F_x}

N_type == <<"t","y","p","e">>
N_balance == <<" ","b","a","l","a","n","c","e">>

\* The statement files on disk: b has a debit marker column, c has raw header
\* names, e has a header and no rows, p is not a statement; x is a workbook
\* (SourceBook).
SourceFile(path) ==
    CASE path = F_a ->
            CsvFile(<<N_Type, N_Balance>>, << <<<<"X">>, <<"1">>>> >>)
      [] path = F_b ->
            CsvFile(<<N_Type, N_Balance>>,
                    << <<<<"D">>, <<"2">>>>, <<<<"C">>, <<"3">>>> >>)
      [] path = F_c ->
            CsvFile(<<N_type, N_balance>>, << <<<<"X">>, <<" ", "4">>>> >>)
      [] path = F_e -> CsvFile(<<N_Type, N_Balance>>, <<>>)
      [] OTHER -> CsvFile(<<N_Unnamed>>, <<>>)

\* os.path.splitext(filename)[1].lower(): the text from the last dot on
RECURSIVE splitext(_)
splitext(name) ==
    IF name = <<>> THEN <<>>
    ELSE IF "." \in Range(Tail(name)) THEN splitext(Tail(name))
    ELSE IF Head(name) = "." THEN name
    ELSE splitext(Tail(name))

extension(name) == str_lower(splitext(name))

EndsWith(s, suffix) ==
    Len(s) >= Len(suffix) /\ SubSeq(s, Len(s) - Len(suffix) + 1, Len(s)) = suffix

\* fnmatch.fnmatch(extension, '*.csv')
IsCsvName(name) == EndsWith(extension(name), <<".", "c", "s", "v">>)

\* fnmatch.fnmatch(extension, '*.xls*')
IsXlsName(name) == contains(extension(name), <<".", "x", "l", "s">>)

\* The workbook at the path x: the first two sheets of Book.
SourceBook ==
    Workbook(SubSeq(Book.sheet_names, 1, 2), SubSeq(Book.cells, 1, 2))

\* DataFrame.empty
IsEmpty(df) == NRows(df) = 0 \/ NCols(df) = 0

\* lines 247-255: each file is read into ac, which holds the last file read
RECURSIVE read_files(_, _, _)
read_files(filelist, ac, continue_on_err) ==
    IF filelist = <<>> THEN ac
    ELSE IF IsCsvName(Head(filelist))
    THEN bind(read_from_csv(SourceFile(Head(filelist)), continue_on_err), LAMBDA got :
              IF got.raised # "" THEN got
              ELSE read_files(Tail(filelist), got, continue_on_err))
    ELSE IF IsXlsName(Head(filelist))
    THEN bind(until_return(SourceBook, read_from_excel(SourceBook, <<>>, 0)), LAMBDA rd :
              IF rd.raised # "" THEN Result(EmptyTable, rd.raised, FALSE)
              ELSE read_files(Tail(filelist), Result(rd.out_df, "", FALSE),
                              continue_on_err))
    ELSE Result(EmptyTable, "ValueError", FALSE)

\* ac = None
None == Result(EmptyTable, "None", FALSE)

\* import_file(filepath, output_file=..., unique=..., continue_on_err=...): the
\* output file it leaves, the table it handed on, and how it ended
import_file(filelist, output, toFile, unique, continue_on_err) ==
    bind(read_files(filelist, None, continue_on_err), LAMBDA ac :
        IF ac.raised \notin {"", "None"}
        THEN [file |-> output, ac |-> EmptyTable, outcome |-> "raised"]
        ELSE IF ac.raised = "None" \/ IsEmpty(ac.df)
        THEN [file |-> output, ac |-> EmptyTable, outcome |-> "nothing"]
        ELSE IF toFile
        THEN bind(ac.df, LAMBDA df :
             bind(write_to_csv(df, output, unique, TRUE, FALSE), LAMBDA done :
                  [file |-> done.file, ac |-> df, outcome |-> done.outcome]))
        ELSE [file |-> output, ac |-> ac.df, outcome |-> "printed"])

ImportFile ==
    /\ lastImport = NoImport
    /\ \E filelist \in SeqUpTo(SourcePaths, MaxPaths) \ {<<>>},
          toFile \in BOOLEAN, unique \in BOOLEAN, coe \in BOOLEAN :
        /\ Len(ledger.lines) <= MaxLedgerRows
        /\ \E done \in {import_file(filelist, ledger, toFile, unique, coe)} :
               /\ ledger' = done.file
               /\ lastImport' =
                    [paths |-> filelist, toFile |-> toFile, unique |-> unique,
                     coe |-> coe, ac |-> done.ac, outcome |-> done.outcome]
    /\ UNCHANGED <<normalizerVars, lastCall, readBack, validatorVars, categorizerVars, excelVars>>

ImportReturns ==
    /\ lastImport # NoImport
    /\ lastImport' = NoImport
    /\ UNCHANGED <<normalizerVars, ledger, lastCall, readBack, validatorVars, categorizerVars, excelVars>>


(***************************************************************************)
(* validate (the Validator).                                               *)
(***************************************************************************)
Min(a, b) == IF a < b THEN a ELSE b

IsLeap(y) == y % 4 = 0 /\ (y % 100 # 0 \/ y % 400 = 0)

\* the days of the month ym months after January of BaseYear
days_in_month(ym) ==
    LET m == (ym % 12) + 1
    IN  CASE m \in {4, 6, 9, 11} -> 30
          [] m = 2 -> (IF IsLeap(BaseYear + (ym \div 12)) THEN 29 ELSE 28)
          [] OTHER -> 31

\* date + 30 days (freq='30D')
add_thirty_days(v) ==
    IF DayOf(v) + 30 <= days_in_month(YearMonth(v))
    THEN Dt(YearMonth(v), DayOf(v) + 30)
    ELSE IF DayOf(v) + 30 - days_in_month(YearMonth(v)) <= days_in_month(YearMonth(v) + 1)
    THEN Dt(YearMonth(v) + 1, DayOf(v) + 30 - days_in_month(YearMonth(v)))
    ELSE Dt(YearMonth(v) + 2,
            DayOf(v) + 30 - days_in_month(YearMonth(v)) - days_in_month(YearMonth(v) + 1))

\* date + pd.DateOffset(months=1): the same day of the next month, or that
\* month's last day
add_month(v) ==
    Dt(YearMonth(v) + 1, Min(DayOf(v), days_in_month(YearMonth(v) + 1)))

\* pd.date_range(start, end, freq=pd.DateOffset(months=1))
RECURSIVE date_range(_, _)
date_range(cur, end) ==
    IF cur.n > end.n THEN <<>> ELSE <<cur>> \o date_range(add_month(cur), end)

\* d.strftime('%Y-%m')
strftime_ym(v) ==
    FormatNat(BaseYear + (YearMonth(v) \div 12)) \o <<"-">>
    \o TwoDigits((YearMonth(v) % 12) + 1)

\* sorted(S), for a set of texts
RECURSIVE sorted(_)
sorted(S) ==
    IF S = {} THEN <<>>
    ELSE LET m == CHOOSE a \in S : \A b \in S \ {a} : str_less(a, b)
         IN  <<m>> \o sorted(S \ {m})

NoVerdict == [result |-> "none", months |-> <<>>, columns |-> {}]

\* What validate returns ("True", "False", or "raised" for an exception), the
\* months it prints as having no entries and the columns it prints as missing.
validate(df, continue_on_err) ==
    LET missing_columns == Range(COLUMN_NAMES) \ ColumnSet(df)
        dates == [i \in 1..NRows(df) |-> Cell(df, i, N_Date)]
        first == CHOOSE a \in Range(dates) : \A b \in Range(dates) : a.n <= b.n
        last == CHOOSE a \in Range(dates) : \A b \in Range(dates) : a.n >= b.n
        actual_months == {strftime_ym(dates[i]) : i \in 1..NRows(df)}
        month_range == date_range(first, last)
        expected_months == {strftime_ym(month_range[i]) : i \in 1..Len(month_range)}
        missing == sorted(expected_months \ actual_months)
    IN  IF missing_columns # {} /\ ~continue_on_err
        THEN [result |-> "False", months |-> <<>>, columns |-> missing_columns]
        ELSE IF \/ ~HasColumn(df, N_Date)
                \/ NRows(df) = 0
                \/ \E i \in 1..NRows(df) : ~IsDate(dates[i])
        THEN [result |-> "raised", months |-> <<>>, columns |-> missing_columns]
        ELSE [result |-> IF missing = <<>> THEN "True" ELSE "False",
              months |-> missing, columns |-> missing_columns]

\* The dates of the model: the first and the last days of the months.
ModelDates ==
    {v \in {Dt(ym, d) : ym \in 0..MaxMonth, d \in {1, 30, 31}} :
        DayOf(v) <= days_in_month(YearMonth(v))}

\* A row of the canonical schema with the given date.
CanonicalRow(date) == <<date, STR_X, STR_X, Num(1), Num(1)>>

CompleteTables ==
    {Table(COLUMN_NAMES, [i \in 1..Len(ds) |-> CanonicalRow(ds[i])]) :
        ds \in SeqUpTo(ModelDates, MaxDates) \ {<<>>}}

\* A dataset that lacks one of the canonical columns.
PartialTables ==
    {DelColumn(Table(COLUMN_NAMES, [i \in 1..Len(ds) |-> CanonicalRow(ds[i])]), c) :
        ds \in SeqUpTo(ModelDates, MaxDates - 1) \ {<<>>}, c \in Range(COLUMN_NAMES)}

CheckedTables == CompleteTables \cup PartialTables

\* validate(checked, continue_on_err)
Validate ==
    /\ verdict = NoVerdict
    /\ \E coe \in BOOLEAN : verdict' = validate(checked, coe)
    /\ UNCHANGED <<normalizerVars, ledgerVars, checked, categorizerVars, excelVars>>

(***************************************************************************)
(* calc_outgoings (the Categorizer) and the Category Rule Store.  A dict   *)
(* is the sequence of its <<key, value>> items in insertion order.         *)
(***************************************************************************)
\* the version of the package (bank/__init__.py)
__version__ == <<"2">>

T_shop == <<"s","h","o","p">>
T_bus == <<"b","u","s">>
T_Food == <<"F","o","o","d">>
T_Fun == <<"F","u","n">>
T_Other == <<"O","t","h","e","r">>

keys(d) == [i \in 1..Len(d) |-> d[i][1]]
values(d) == [i \in 1..Len(d) |-> d[i][2]]
HasKey(d, k) == \E i \in 1..Len(d) : d[i][1] = k
Lookup(d, k) == d[CHOOSE i \in 1..Len(d) : d[i][1] = k][2]

\* d[k] = v
SetItem(d, k, v) ==
    IF HasKey(d, k)
    THEN [i \in 1..Len(d) |-> IF d[i][1] = k THEN <<k, v>> ELSE d[i]]
    ELSE Append(d, <<k, v>>)

Config(categories, regexes, version) ==
    [categories |-> categories, regexes |-> regexes, version |-> version]

\* lines 58-60
update_config_version(config) == [config EXCEPT !.version = __version__]

\* lines 63-66
get_default_config == update_config_version(Config(<<>>, <<>>, <<>>))

\* The file at CONFIG_PATH: whether it exists, whether its directory exists, and
\* the JSON object it holds.  A file without the version key (versioned = FALSE)
\* holds the old flat mapping, kept here in categories.
StoreFile(config, versioned) ==
    [exists |-> TRUE, dir |-> TRUE, versioned |-> versioned, config |-> config]

NoStore(dir) ==
    [exists |-> FALSE, dir |-> dir, versioned |-> FALSE, config |-> Config(<<>>, <<>>, <<>>)]

\* a load that takes the content of any file as it is
load_as_is(file) == IF file.exists THEN file.config ELSE get_default_config

\* lines 316-324
load_config(file) ==
    IF file.exists
    THEN (IF file.versioned THEN file.config
          ELSE update_config_version(Config(file.config.categories, <<>>, <<>>)))
    ELSE get_default_config

(***************************************************************************)
(* re: patterns of literal characters, '.' and '*'.                        *)
(***************************************************************************)
\* re.compile raises re.error: nothing to repeat, multiple repeat, or a
\* parenthesis without its partner
re_error(p) ==
    \/ p # <<>> /\ Head(p) = "*"
    \/ \E i \in 1..(Len(p) - 1) : p[i] = "*" /\ p[i + 1] = "*"
    \/ ("(" \in Range(p)) # (")" \in Range(p))

Drop(t, n) == SubSeq(t, n + 1, Len(t))

Max(S) == CHOOSE a \in S : \A b \in S : b <= a

\* the number of leading characters of t that the pattern element x matches
RECURSIVE run_length(_, _)
run_length(x, t) ==
    IF t # <<>> /\ (x = "." \/ x = Head(t)) THEN 1 + run_length(x, Tail(t)) ELSE 0

\* The length of the match of p at the start of t that the backtracking matcher
\* finds (a repeat takes as much as it can), or -1 when p does not match there.
RECURSIVE match_at(_, _)
match_at(p, t) ==
    IF p = <<>> THEN 0
    ELSE IF Len(p) >= 2 /\ p[2] = "*"
    THEN LET fits == {k \in 0..run_length(p[1], t) : match_at(Drop(p, 2), Drop(t, k)) >= 0}
         IN  IF fits = {} THEN -1
             ELSE Max(fits) + match_at(Drop(p, 2), Drop(t, Max(fits)))
    ELSE IF t # <<>> /\ (p[1] = "." \/ p[1] = Head(t))
    THEN bind(match_at(Tail(p), Tail(t)), LAMBDA m : IF m < 0 THEN -1 ELSE 1 + m)
    ELSE -1

\* re.compile(p).search(t) is not None
re_search(p, t) == \E i \in 0..Len(t) : match_at(p, Drop(t, i)) >= 0

\* re.compile(p).sub(repl, t): every match, from the left, is replaced; an empty
\* match is replaced too and the scan moves on by one character
RECURSIVE re_sub(_, _, _)
re_sub(p, repl, t) ==
    bind(match_at(p, t), LAMBDA m :
        IF m > 0 THEN repl \o re_sub(p, repl, Drop(t, m))
        ELSE (IF m = 0 THEN repl ELSE <<>>)
             \o (IF t = <<>> THEN <<>> ELSE <<Head(t)>> \o re_sub(p, repl, Tail(t))))

\* a check that takes every pattern that compiles
compiles_only(pattern, check_item) ==
    IF re_error(pattern) THEN "Regex is not valid." ELSE "True"

\* lines 69-79: TRUE, or the message printed
is_valid_regex(pattern, check_item) ==
    IF re_error(pattern) THEN "Regex is not valid."
    ELSE IF ~re_search(pattern, check_item) THEN "Regex does not match item."
    ELSE "True"

(***************************************************************************)
(* The report of calc_outgoings.                                           *)
(***************************************************************************)
\* parse_date(text, dayfirst=not YEARFIRST.match(text)).date(), for the texts
\* YEARFIRST matches (a four-digit year first)
parse_date(text) == ParseDate(text)

\* lines 288-299; None is the empty text
filter_df_by_date(ac, date_from, date_to) ==
    LET d == ColIndex(ac, N_Date)
        from_date(r) == date_from = <<>> \/ r[d].n >= parse_date(date_from).n
        to_date(r) == date_to = <<>> \/ r[d].n <= parse_date(date_to).n
    IN  Table(ac.columns, SelectSeq(SelectSeq(ac.rows, from_date), to_date))

\* line 330: a Description equal to a key of the mapping becomes its value
replace_exact(df, mapping) ==
    LET j == ColIndex(df, N_Description)
    IN  SetColumn(df, j,
                  [i \in 1..NRows(df) |->
                      IF IsStr(df.rows[i][j]) /\ HasKey(mapping, df.rows[i][j].s)
                      THEN Str(Lookup(mapping, df.rows[i][j].s))
                      ELSE df.rows[i][j]])

\* the patterns in turn: where a pattern is found in the text as it was, every
\* match in the text as it is now is replaced by the pattern's value
RECURSIVE sub_each(_, _, _)
sub_each(mapping, original, text) ==
    IF mapping = <<>> THEN text
    ELSE bind(IF re_search(Head(mapping)[1], original)
              THEN re_sub(Head(mapping)[1], Head(mapping)[2], text) ELSE text,
              LAMBDA now : sub_each(Tail(mapping), original, now))

\* line 331
replace_regex(df, mapping) ==
    LET j == ColIndex(df, N_Description)
    IN  SetColumn(df, j,
                  [i \in 1..NRows(df) |->
                      IF IsStr(df.rows[i][j])
                      THEN Str(sub_each(mapping, df.rows[i][j].s, df.rows[i][j].s))
                      ELSE df.rows[i][j]])

RECURSIVE Sum(_)
Sum(s) == IF s = <<>> THEN 0 ELSE Head(s) + Sum(Tail(s))

\* the Amount of the rows keep selects, missing amounts left out
amounts(df, keep(_)) ==
    LET a == ColIndex(df, N_Amount)
        picked == SelectSeq(df.rows, LAMBDA r : keep(r) /\ IsNum(r[a]))
    IN  [i \in 1..Len(picked) |-> picked[i][a].n]

\* line 332: ac.groupby('Description').sum(numeric_only=True)['Amount'], the
\* <<label, sum>> pairs in the order of the labels; a row whose Description is
\* missing belongs to no group
groupby_sum(df) ==
    LET j == ColIndex(df, N_Description)
        labels == sorted({df.rows[i][j].s : i \in {h \in 1..NRows(df) : IsStr(df.rows[h][j])}})
    IN  [k \in 1..Len(labels) |->
            <<labels[k], Sum(amounts(df, LAMBDA r : r[j] = Str(labels[k])))>>]

\* lines 333-335: the groups whose label is a configured category, then Other
out_df(result, all_items) ==
    LET known == SelectSeq(result, LAMBDA g : g[1] \in Range(all_items))
        other == SelectSeq(result, LAMBDA g : g[1] \notin Range(all_items))
    IN  known \o << <<T_Other, Sum(values(other))>> >>

\* line 338
unknown_items(result, all_items) ==
    keys(SelectSeq(result, LAMBDA g : g[1] \notin Range(all_items)))

(***************************************************************************)
(* The learning loop.                                                      *)
(***************************************************************************)
\* int(text): the integer, for the texts int accepts
IsIntText(t) ==
    LET s == str_strip(t)
    IN  IsNumText(s) \/ (s # <<>> /\ Head(s) = "+" /\ IsNatText(Tail(s)))

int(t) ==
    LET s == str_strip(t)
    IN  IF Head(s) = "+" THEN ParseNat(Tail(s)) ELSE ParseNum(s)

\* lines 305-314: the mapping named by key after config[key][item] = ..., the
\* categories after it, and what it printed
add_category_regex(mapping, item, category, all_categories) ==
    IF ~IsIntText(category)
    THEN [mapping |-> SetItem(mapping, item, category),
          all_categories |-> Append(all_categories, category),
          said |-> "Added new category"]
    ELSE bind(int(category) - 1, LAMBDA k :
         IF k >= Len(all_categories) \/ k < -Len(all_categories)
         THEN [mapping |-> mapping, all_categories |-> all_categories,
               said |-> "Category is invalid."]
         ELSE [mapping |-> SetItem(mapping, item,
                                   all_categories[IF k >= 0 THEN k + 1
                                                  ELSE Len(all_categories) + k + 1]),
               all_categories |-> all_categories, said |-> ""])

\* The call of calc_outgoings in progress: where it stands (pc), its arguments,
\* its locals, what it printed (report, shown, said), the answers input() gave
\* it, and how often it wrote the store.  n counts the calls made.
NoRun ==
    [pc |-> "idle", n |-> 0,
     show_unknown |-> FALSE, add_categories |-> FALSE,
     date_from |-> <<>>, date_to |-> <<>>,
     loaded |-> Config(<<>>, <<>>, <<>>), config |-> Config(<<>>, <<>>, <<>>),
     filtered |-> EmptyTable, ac |-> EmptyTable,
     result |-> <<>>, report |-> <<>>, unknown |-> <<>>, shown |-> <<>>,
     all_categories |-> <<>>, at |-> 0, item |-> <<>>, orig_item |-> <<>>,
     said |-> "", answers |-> <<>>, writes |-> 0, raised |-> ""]

Outcome(run, file) == [co |-> run, store |-> file]

Raise(run, exc, file) == Outcome([run EXCEPT !.pc = "raised", !.raised = exc], file)

\* lines 368-371: the file is opened for writing before its directory is made
save_config(run, file) ==
    IF ~file.dir THEN Raise(run, "FileNotFoundError", file)
    ELSE bind(update_config_version(run.config), LAMBDA config :
         Outcome([run EXCEPT !.pc = "done", !.config = config, !.writes = @ + 1],
                 StoreFile(config, TRUE)))

\* line 351: the next unknown item is prompted for, or the loop is over
next_item(run, file) ==
    IF run.at >= Len(run.unknown) THEN save_config(run, file)
    ELSE Outcome([run EXCEPT !.pc = "prompt", !.at = @ + 1,
                             !.item = run.unknown[run.at + 1]], file)

\* lines 338-350: after the report
after_report(run, file) ==
    IF run.unknown = <<>> THEN Outcome([run EXCEPT !.pc = "done"], file)
    ELSE bind([run EXCEPT !.shown = IF run.show_unknown THEN run.unknown ELSE <<>>],
              LAMBDA told :
         IF ~run.add_categories THEN Outcome([told EXCEPT !.pc = "done"], file)
         ELSE next_item(told, file))

\* lines 316-350: calc_outgoings up to its first input(), or to its end
calc_outgoings(filename, file, show_unknown, add_categories, date_from, date_to) ==
    bind(load_config(file), LAMBDA config :
    bind(values(config.categories) \o values(config.regexes), LAMBDA all_items :
    bind([NoRun EXCEPT !.show_unknown = show_unknown, !.add_categories = add_categories,
                       !.date_from = date_from, !.date_to = date_to,
                       !.loaded = config, !.config = config], LAMBDA run :
    bind(read_from_csv(filename, FALSE), LAMBDA read :
    IF read.raised # "" THEN Raise(run, read.raised, file)
    ELSE bind(filter_df_by_date(read.df, date_from, date_to), LAMBDA filtered :
    \* get_date_range: the minimum of no dates is nan, which has no strftime
    IF NRows(filtered) = 0
    THEN Raise([run EXCEPT !.filtered = filtered], "AttributeError", file)
    ELSE bind(replace_exact(filtered, config.categories), LAMBDA exact :
         bind(replace_regex(exact, config.regexes), LAMBDA ac :
         bind(groupby_sum(ac), LAMBDA result :
         after_report([run EXCEPT !.filtered = filtered, !.ac = ac, !.result = result,
                                  !.report = out_df(result, all_items),
                                  !.unknown = unknown_items(result, all_items),
                                  !.all_categories = sorted(Range(all_items))],
                      file)))))))))

Answer(item, category, pattern, label) ==
    [item |-> item, category |-> category, pattern |-> pattern, label |-> label]

\* lines 352-366: the answer to the prompt for an item
answer_item(run, file, category) ==
    bind([run EXCEPT !.answers = Append(@, Answer(run.item, category, <<>>, <<>>)),
                     !.said = ""], LAMBDA heard :
    IF category = <<>> THEN next_item(heard, file)
    ELSE IF str_lower(category) = <<"q">> THEN save_config(heard, file)
    ELSE IF str_lower(category) = <<"r">>
    THEN Outcome([run EXCEPT !.pc = "regex", !.orig_item = run.item, !.said = ""], file)
    ELSE bind(add_category_regex(run.config.categories, run.item, category,
                                 run.all_categories), LAMBDA added :
         next_item([heard EXCEPT !.config.categories = added.mapping,
                                 !.all_categories = added.all_categories,
                                 !.said = added.said], file)))

\* lines 360-362: the answer to the prompt for a pattern
answer_regex(run, pattern) ==
    bind(is_valid_regex(pattern, run.orig_item), LAMBDA valid :
    IF valid = "True" THEN [run EXCEPT !.pc = "category", !.item = pattern, !.said = ""]
    ELSE [run EXCEPT !.item = pattern, !.said = valid])

\* lines 363-364: the answer to the prompt for the category of a pattern
answer_category(run, file, category) ==
    bind(add_category_regex(run.config.regexes, run.item, category, run.all_categories),
         LAMBDA added :
         next_item([run EXCEPT !.config.regexes = added.mapping,
                               !.all_categories = added.all_categories,
                               !.said = added.said,
                               !.answers = Append(@, Answer(run.orig_item, <<"r">>,
                                                            run.item, category))],
                   file))

(***************************************************************************)
(* The categorizer on its own: a statement and a store are on disk, and    *)
(* calc_outgoings is run over them with answers typed at its prompts.      *)
(***************************************************************************)
D_Jan == <<"2","0","1","6","-","0","1","-","1","0">>
D_Feb == <<"2","0","1","6","-","0","2","-","1","0">>
D_FebFirst == <<"2","0","1","6","-","0","2","-","0","1">>
D_JanLast == <<"2","0","1","6","-","0","1","-","3","1">>

\* the lines of a statement: shops and a bus fare, and a line with no description
StatementLines ==
    << <<D_Jan, T_shop, <<"1">>>>, <<D_Jan, T_bus, <<"2">>>>,
       <<D_Feb, T_shop, <<"4">>>>, <<D_Feb, <<>>, <<"8">>>> >>

Pick(lines, S) == SelectSeq(lines, LAMBDA l : l \in S)

Statements ==
    {CsvFile(<<N_Date, N_Description, N_Amount>>, Pick(StatementLines, S)) :
        S \in SUBSET Range(StatementLines)}

P_o == <<"o", ".", "*">>
P_bus == <<"b", "u", "s", ".", "*">>
P_sh == <<"s", "h">>
P_x == <<"x">>
P_bad == <<"s", "*", "*">>

Stores ==
    {NoStore(FALSE), NoStore(TRUE),
     StoreFile(Config(<< <<T_shop, T_Food>> >>, <<>>, <<>>), FALSE),
     StoreFile(Config(<<>>, <<>>, <<>>), TRUE),
     StoreFile(Config(<< <<T_shop, T_Food>> >>, << <<P_o, T_Fun>> >>, __version__), TRUE),
     StoreFile(Config(<<>>, << <<P_bus, T_Fun>> >>, __version__), TRUE)}

DateArgs == {<<>>, D_FebFirst}
DateToArgs == {<<>>, D_JanLast}

Answers == {<<>>, <<"q">>, <<"Q">>, <<"r">>, <<"0">>, <<"1">>, <<"9">>, T_Food}
Patterns == {P_bus, P_sh, P_x, P_bad}

\* calc_outgoings(statement, show_unknown, add_categories, date_from, date_to)
CalcOutgoings ==
    /\ co.pc = "idle"
    /\ co.n < MaxRuns
    /\ \E show_unknown \in BOOLEAN, add_categories \in BOOLEAN,
          date_from \in DateArgs, date_to \in DateToArgs :
        \E begun \in {calc_outgoings(statement, store, show_unknown, add_categories,
                                     date_from, date_to)} :
            /\ co' = [begun.co EXCEPT !.n = co.n + 1]
            /\ store' = begun.store
    /\ UNCHANGED <<normalizerVars, ledgerVars, validatorVars, excelVars, statement>>

\* input(f"{item} ({typical_amount}) > ")
AnswerItem ==
    /\ co.pc = "prompt"
    /\ \E category \in Answers :
        \E next \in {answer_item(co, store, category)} :
            /\ co' = next.co
            /\ store' = next.store
    /\ UNCHANGED <<normalizerVars, ledgerVars, validatorVars, excelVars, statement>>

\* input(f"Enter regex for {orig_item} > ")
AnswerRegex ==
    /\ co.pc = "regex"
    /\ \E pattern \in Patterns : co' = answer_regex(co, pattern)
    /\ UNCHANGED <<normalizerVars, ledgerVars, validatorVars, excelVars, statement, store>>

\* input(f"Enter category for pattern {item} > ")
AnswerCategory ==
    /\ co.pc = "category"
    /\ \E category \in Answers :
        \E next \in {answer_category(co, store, category)} :
            /\ co' = next.co
            /\ store' = next.store
    /\ UNCHANGED <<normalizerVars, ledgerVars, validatorVars, excelVars, statement>>

\* calc_outgoings returns, or its exception ends the program
CalcReturns ==
    /\ co.pc \in {"done", "raised"}
    /\ co' = [NoRun EXCEPT !.n = co.n]
    /\ UNCHANGED <<normalizerVars, ledgerVars, validatorVars, excelVars, statement, store>>

(***************************************************************************)
(* Specifications: each part of the program on its own, the other parts    *)
(* idle.                                                                   *)
(***************************************************************************)
NormalizerIdle == raw = EmptyTable /\ cleaned = NotRun

LedgerIdle ==
    /\ ledger = NoFile
    /\ lastCall = NoCall
    /\ readBack = NotRun
    /\ lastImport = NoImport

ValidatorIdle == checked = EmptyTable /\ verdict = NoVerdict

CategorizerIdle == store = NoStore(FALSE) /\ statement = NoFile /\ co = NoRun

ExcelIdle == book = Workbook(<<>>, <<>>) /\ rx = NoRead

InitCleanup ==
    /\ raw \in RawTables
    /\ cleaned = NotRun
    /\ LedgerIdle /\ ValidatorIdle /\ CategorizerIdle /\ ExcelIdle

NextCleanup == CleanupColumns

SpecCleanup == InitCleanup /\ [][NextCleanup]_vars

InitLedger == NormalizerIdle /\ LedgerIdle /\ ValidatorIdle /\ CategorizerIdle /\ ExcelIdle

NextLedger == WriteToCsv \/ ReadFromCsv \/ Return

SpecLedger == InitLedger /\ [][NextLedger]_vars

InitImport == NormalizerIdle /\ LedgerIdle /\ ValidatorIdle /\ CategorizerIdle /\ ExcelIdle

NextImport == ImportFile \/ ImportReturns

SpecImport == InitImport /\ [][NextImport]_vars

InitCategorize ==
    /\ NormalizerIdle /\ LedgerIdle /\ ValidatorIdle /\ ExcelIdle
    /\ statement \in Statements
    /\ store \in Stores
    /\ co = NoRun

NextCategorize ==
    CalcOutgoings \/ AnswerItem \/ AnswerRegex \/ AnswerCategory \/ CalcReturns

SpecCategorize == InitCategorize /\ [][NextCategorize]_vars

InitExcel ==
    /\ NormalizerIdle /\ LedgerIdle /\ ValidatorIdle /\ CategorizerIdle
    /\ book = Book
    /\ rx = NoRead

NextExcel == ReadFromExcel \/ ParseSheet \/ ExcelReturns

SpecExcel == InitExcel /\ [][NextExcel]_vars

InitValidate ==
    /\ checked \in CheckedTables
    /\ verdict = NoVerdict
    /\ NormalizerIdle /\ LedgerIdle /\ CategorizerIdle /\ ExcelIdle

NextValidate == Validate

SpecValidate == InitValidate /\ [][NextValidate]_vars

(***************************************************************************)
(* Claims about the ledger.                                                *)
(***************************************************************************)
\* a and b have the same columns and, row by row, the same value in each
SameTable(a, b) ==
    /\ ColumnSet(a) = ColumnSet(b)
    /\ NRows(a) = NRows(b)
    /\ \A i \in 1..NRows(a) : \A c \in ColumnSet(a) : Cell(a, i, c) = Cell(b, i, c)

\* rows first+1 .. first+NRows(part) of whole are the rows of part, NaN where
\* part has no such column
HoldsRowsAt(whole, first, part) ==
    \A i \in 1..NRows(part) : \A c \in ColumnSet(whole) :
        Cell(whole, first + i, c) = IF HasColumn(part, c) THEN Cell(part, i, c) ELSE NaN

\* C1: a normalized dataset written to a path that does not exist and read
\* back with read_from_csv is the same table: the same rows in the same
\* order, the same value in every column.
C1_RoundTrip ==
    (HasRun(readBack) /\ lastCall.outcome = "written" /\ ~lastCall.before.exists)
        => (readBack.raised = "" /\ SameTable(readBack.df, lastCall.df))

\* C2: writing a dataset with remove_duplicates to the ledger that one such
\* write on a fresh path left, leaves that same ledger.
C2_DedupIdempotent ==
    ( /\ lastCall.outcome = "written"
      /\ lastCall.rd
      /\ lastCall.before.exists
      /\ lastCall.before =
            write_to_csv(lastCall.df, NoFile, TRUE, lastCall.cc, lastCall.coe).file )
        => SameTable(read_csv(ledger), read_csv(lastCall.before))

\* C3: a write without remove_duplicates whose columns match those of the
\* ledger leaves the rows the ledger held, unchanged and in their order,
\* followed by the rows of the incoming dataset.
C3_AppendOnly ==
    ( /\ lastCall.outcome = "written"
      /\ lastCall.before.exists
      /\ ~lastCall.rd
      /\ lower_sorted(read_from_csv(lastCall.before, FALSE).df.columns)
            = lower_sorted(lastCall.df.columns) )
        => LET old == read_csv(lastCall.before)
               new == read_csv(ledger)
               incoming == read_csv(to_csv(lastCall.df))
           IN  /\ ColumnSet(new) = ColumnSet(old)
               /\ NRows(new) = NRows(old) + NRows(incoming)
               /\ HoldsRowsAt(new, 0, old)
               /\ HoldsRowsAt(new, NRows(old), incoming)

\* The existing ledger and the incoming dataset of the last call differ in
\* their case-insensitive sorted column names, and the call checks them.
SchemaMismatch ==
    /\ lastCall.before.exists
    /\ lastCall.cc
    /\ read_from_csv(lastCall.before, FALSE).raised = ""
    /\ lower_sorted(read_from_csv(lastCall.before, FALSE).df.columns)
          # lower_sorted(lastCall.df.columns)

\* C5: on a schema mismatch write_to_csv without continue_on_err returns and
\* leaves the file as it was; with continue_on_err it writes the existing
\* rows followed by the incoming rows under the union of both column sets.
C5_SchemaMismatch ==
    SchemaMismatch =>
        LET existing == read_from_csv(lastCall.before, FALSE).df
            new == read_csv(ledger)
            incoming == read_csv(to_csv(lastCall.df))
            kept == read_csv(to_csv(existing))
        IN  IF ~lastCall.coe
            THEN lastCall.outcome = "aborted" /\ ledger = lastCall.before
            ELSE /\ lastCall.outcome = "written"
                 /\ ColumnSet(new) = ColumnSet(existing) \cup ColumnSet(lastCall.df)
                 /\ ~lastCall.rd =>
                        /\ NRows(new) = NRows(existing) + NRows(incoming)
                        /\ HoldsRowsAt(new, 0, kept)
                        /\ HoldsRowsAt(new, NRows(existing), incoming)

\* C5 happens: a mismatching dataset with rows was appended to a ledger with
\* rows under continue_on_err, and the columns of neither side hold the other's.
C5_Witness ==
    /\ SchemaMismatch
    /\ lastCall.coe
    /\ lastCall.outcome = "written"
    /\ NRows(lastCall.df) > 0
    /\ Len(lastCall.before.lines) > 0
    /\ ColumnSet(read_csv(ledger)) # ColumnSet(lastCall.df)

\* C5 happens without continue_on_err too.
C5_AbortReached ==
    SchemaMismatch /\ ~lastCall.coe /\ NRows(lastCall.df) > 0

(***************************************************************************)
(* Claims about the normalizer.                                            *)
(***************************************************************************)
\* The alias pairs the alias-convergence property names.
ClaimedAliases ==
    {<<N_Merchant, N_Description>>, <<N_BalanceGBP, N_Balance>>,
     <<N_PaidOut, N_Amount>>, <<N_TransactionDate, N_Date>>}

\* C6: cleanup_columns of a table that has a column with an alias name leaves
\* a column with the canonical name and no column with the alias name in any
\* letter case.
C6_AliasConvergence ==
    HasRun(cleaned) =>
        \A pair \in ClaimedAliases :
            HasColumn(raw, pair[1]) =>
                /\ cleaned.raised = ""
                /\ HasColumn(cleaned.df, pair[2])
                /\ \A c \in ColumnSet(cleaned.df) : str_lower(c) # str_lower(pair[1])

\* The columns of df whose values are all D or C (and that have a value).
DebitCreditColumns(df) == {j \in 1..NCols(df) : IsDebitCreditColumn(df, j)}

\* The raw table has a Balance column of numbers and keeps its rows and names.
SignCase ==
    /\ HasRun(cleaned)
    /\ HasColumn(raw, N_Balance)
    /\ \A i \in 1..NRows(raw) : ~IsStr(Cell(raw, i, N_Balance))

\* C7: Balance is negated on exactly the rows where a column of D and C
\* values holds D, and is unchanged on every other row; without such a column
\* it is unchanged on every row.
C7_SignResolution ==
    SignCase =>
        /\ cleaned.raised = ""
        /\ HasColumn(cleaned.df, N_Balance)
        /\ NRows(cleaned.df) = NRows(raw)
        /\ \A i \in 1..NRows(raw) :
              Cell(cleaned.df, i, N_Balance) =
                 IF \E j \in DebitCreditColumns(raw) : raw.rows[i][j] = STR_D
                 THEN negate(Cell(raw, i, N_Balance))
                 ELSE Cell(raw, i, N_Balance)

\* The raw table has an Amount and a 'Paid in' column.
PaidInCase ==
    /\ HasRun(cleaned)
    /\ HasColumn(raw, N_PaidIn)
    /\ HasColumn(raw, N_Amount)

\* C14: after cleanup_columns of a table with a 'Paid in' column, Amount is the
\* negated 'Paid in' value on the rows that have one and is unchanged on every
\* other row, and the table has no 'Paid in' column left, however its name is
\* cased.
C14_PaidInFolding ==
    PaidInCase =>
        /\ cleaned.raised = ""
        /\ HasColumn(cleaned.df, N_Amount)
        /\ NRows(cleaned.df) = NRows(raw)
        /\ \A i \in 1..NRows(raw) :
              Cell(cleaned.df, i, N_Amount) =
                 IF notnull(Cell(raw, i, N_PaidIn))
                 THEN negate(Cell(raw, i, N_PaidIn))
                 ELSE Cell(raw, i, N_Amount)
        /\ \A j \in 1..NCols(cleaned.df) :
              str_lower(cleaned.df.columns[j]) # str_lower(N_PaidIn)

(***************************************************************************)
(* Claims about the statement reader.                                      *)
(***************************************************************************)
\* the rows of every path of the list, in the order of the list
RECURSIVE RowsOfPaths(_, _)
RowsOfPaths(paths, cols) ==
    IF paths = <<>> THEN <<>>
    ELSE reindex(read_from_csv(SourceFile(Head(paths)), FALSE).df, cols)
         \o RowsOfPaths(Tail(paths), cols)

\* C4: import_file with a list of supported paths hands on (to the ledger
\* writer, or to print) the rows of every path, in the order of the list.
C4_MultiSourceRead ==
    ( /\ lastImport.outcome \in {"written", "printed"}
      /\ \A i \in 1..Len(lastImport.paths) : IsCsvName(lastImport.paths[i]) )
        => lastImport.ac.rows = RowsOfPaths(lastImport.paths, lastImport.ac.columns)

(***************************************************************************)
(* Claims about the validator.                                             *)
(***************************************************************************)
\* The year-months of the Date column, counted from January of BaseYear.
MonthsPresent == {YearMonth(Cell(checked, i, N_Date)) : i \in 1..NRows(checked)}
FirstMonth == CHOOSE m \in MonthsPresent : \A o \in MonthsPresent : m <= o
LastMonth == CHOOSE m \in MonthsPresent : \A o \in MonthsPresent : m >= o
MonthsAbsent == {m \in FirstMonth..LastMonth : m \notin MonthsPresent}

\* the text YYYY-MM of a month counted from January of BaseYear
MonthText(m) == strftime_ym(Dt(m, 1))

\* C8: for a dataset with the five canonical columns and a row, validate
\* returns true exactly when every year-month from that of the earliest date
\* to that of the latest date occurs in the Date column, and the months it
\* reports are exactly the year-months of that range that do not occur.
C8_ValidatorContinuity ==
    (verdict # NoVerdict /\ Range(COLUMN_NAMES) \subseteq ColumnSet(checked)
        /\ NRows(checked) >= 1)
        => /\ verdict.result = IF MonthsAbsent = {} THEN "True" ELSE "False"
           /\ Range(verdict.months) = {MonthText(m) : m \in MonthsAbsent}
           /\ Len(verdict.months) = Cardinality(MonthsAbsent)

\* C8 happens: the earliest date is the 31st of its month, the latest the
\* 1st of a later month, in between lies a shorter month, and a month is
\* reported.
C8_Witness ==
    /\ verdict.result = "False"
    /\ Len(verdict.months) >= 1
    /\ \E i, j \in 1..NRows(checked) :
          /\ DayOf(Cell(checked, i, N_Date)) = 31
          /\ YearMonth(Cell(checked, i, N_Date)) = FirstMonth
          /\ DayOf(Cell(checked, j, N_Date)) = 1
          /\ YearMonth(Cell(checked, j, N_Date)) = LastMonth
          /\ LastMonth >= FirstMonth + 2

\* validate has run on a dataset that lacks a canonical column
MissingColumns == Range(COLUMN_NAMES) \ ColumnSet(checked)
IncompleteCase == verdict # NoVerdict /\ MissingColumns # {}

\* C15: on a dataset that lacks a canonical column, Date included, validate
\* either returns false at once and reports no month (continue_on_err false),
\* or runs the month check and returns a boolean that is true exactly when no
\* month is reported missing (continue_on_err true); it never raises.
C15_ColumnCompleteness ==
    IncompleteCase =>
        /\ verdict.result \in {"True", "False"}
        /\ verdict.columns = MissingColumns
        /\ \/ verdict.result = "False" /\ verdict.months = <<>>
           \/ /\ (verdict.result = "True") = (verdict.months = <<>>)
              /\ HasColumn(checked, N_Date) =>
                    Range(verdict.months) = {MonthText(m) : m \in MonthsAbsent}

(***************************************************************************)
(* Claims about the categorizer.                                           *)
(***************************************************************************)
\* the labels that are a value of the exact or of the pattern mapping
ConfiguredLabels ==
    Range(values(co.loaded.categories) \o values(co.loaded.regexes))

\* the (replaced) Description of the row r is label
UnderLabel(r, label) == r[ColIndex(co.ac, N_Description)] = Str(label)

IsConfigured(r) == \E label \in ConfiguredLabels : UnderLabel(r, label)

\* C9 (Categorizer aggregation): once calc_outgoings has printed its report, every
\* configured label that occurs as a replaced Description has a line with the
\* sum of Amount over the filtered rows under that label, the last line is Other
\* with the sum of Amount over all the remaining filtered rows, and so the lines
\* together account for the Amount of every filtered row exactly once.
C9_Aggregation ==
    co.report # <<>> =>
        /\ \A label \in ConfiguredLabels :
              (\E i \in 1..NRows(co.ac) : UnderLabel(co.ac.rows[i], label)) =>
                  <<label, Sum(amounts(co.ac, LAMBDA r : UnderLabel(r, label)))>>
                      \in Range(co.report)
        /\ co.report[Len(co.report)]
               = <<T_Other, Sum(amounts(co.ac, LAMBDA r : ~IsConfigured(r)))>>
        /\ Sum(values(co.report)) = Sum(amounts(co.filtered, LAMBDA r : TRUE))

\* The learning loop of a run with add_categories and an unknown item is over.
LoopEnded ==
    co.add_categories /\ co.unknown # <<>> /\ co.pc \in {"done", "raised"}

\* config with the assignments that the answers before the first q make
RECURSIVE Learned(_, _, _)
Learned(config, categories, answers) ==
    IF answers = <<>> THEN config
    ELSE IF Head(answers).category = <<>>
    THEN Learned(config, categories, Tail(answers))
    ELSE IF str_lower(Head(answers).category) = <<"q">> THEN config
    ELSE IF str_lower(Head(answers).category) = <<"r">>
    THEN LET added == add_category_regex(config.regexes, Head(answers).pattern,
                                         Head(answers).label, categories)
         IN  Learned([config EXCEPT !.regexes = added.mapping],
                     added.all_categories, Tail(answers))
    ELSE LET added == add_category_regex(config.categories, Head(answers).item,
                                         Head(answers).category, categories)
         IN  Learned([config EXCEPT !.categories = added.mapping],
                     added.all_categories, Tail(answers))

\* C10 (Learning loop quit and persistence): when the learning loop of a run
\* with add_categories and an unknown item has ended, by an answer q or with
\* the last item, the store has been written exactly once, and the store on
\* disk is the loaded store with the assignments accepted before the first q
\* and the current version; the item answered q and the later items have no
\* entry.
C10_LoopPersistence ==
    LoopEnded =>
        /\ co.writes = 1
        /\ store = StoreFile(update_config_version(
                       Learned(co.loaded,
                               sorted(Range(values(co.loaded.categories)
                                            \o values(co.loaded.regexes))),
                               co.answers)), TRUE)

\* The store on disk is the one the run in progress loaded: the run has begun
\* and has not written.
StoreAsLoaded == co.pc # "idle" /\ co.writes = 0

\* C11 (Category Rule Store load): calc_outgoings uses the empty mappings and
\* the current version when there is no file; the whole content of a file
\* without a version key as the exact mapping, with an empty pattern mapping
\* and the current version; a file with a version key as it is, so that
\* loading what was loaded changes nothing.
C11_StoreLoad ==
    StoreAsLoaded =>
        /\ co.loaded =
              IF ~store.exists THEN Config(<<>>, <<>>, __version__)
              ELSE IF ~store.versioned
              THEN Config(store.config.categories, <<>>, __version__)
              ELSE store.config
        /\ load_config(StoreFile(co.loaded, TRUE)) = co.loaded

\* C11 happens: a file without a version key, holding a rule, was loaded.
C11_Witness ==
    /\ StoreAsLoaded
    /\ store.exists /\ ~store.versioned
    /\ co.loaded.categories # <<>>
    /\ co.loaded.version = __version__


(***************************************************************************)
(* Claims about the excel reader.                                          *)
(***************************************************************************)
\* the names the parser gives the columns of the sheet after skipping skip rows
NamesAt(b, sht, skip) == xl_parse(b, sht, skip, FALSE).df.columns

\* fewer than half of the names at this skip are placeholder names
Converges(b, sht, skip) ==
    LET names == NamesAt(b, sht, skip)
        placeholders == {j \in 1..Len(names) : contains(names[j], N_Unnamed)}
    IN  2 * Cardinality(placeholders) < Len(names)

\* the longest search: each skip of 0..MaxSkip parsed with and again without
\* the converters, and the final parse with no skip
MostParses == 2 * (MaxSkip + 1) + 1

\* C12: for each sheet of the workbook, read_from_excel uses the table parsed
\* with the smallest skip in 0..10 at which fewer than half of the column names
\* are placeholders, and the zero-skip parse when there is no such skip; the
\* search of a sheet takes a bounded number of parses and a call over sheets of
\* the workbook does not raise.
C12_HeaderDetection ==
    /\ \A u \in 1..Len(rx.used) :
          LET sheet == rx.used[u]
              good == {s \in 0..MaxSkip : Converges(book, sheet.sht, s)}
          IN  /\ HasSheet(book, sheet.sht)
              /\ sheet.fallback = (good = {})
              /\ good # {} => sheet.skip \in good /\ \A s \in good : sheet.skip <= s
              /\ good = {} => sheet.skip = 0
              /\ sheet.df = xl_parse(book, sheet.sht, sheet.skip, FALSE).df
              /\ sheet.tries <= MostParses
    /\ rx.pc = "parse" /\ HasSheet(book, rx.namelist[rx.at]) =>
          rx.tries <= MostParses - 1 /\ rx.skip <= MaxSkip
    /\ rx.pc # "raised"

\* a call has read a sheet at a skip above zero, where exactly half of the names
\* at skip zero are placeholders, and a sheet that fell back to the zero-skip parse
C12_Witness ==
    /\ rx.pc = "done"
    /\ \E u \in 1..Len(rx.used) :
          rx.used[u].sht = S_Half /\ rx.used[u].skip = 1 /\ ~rx.used[u].fallback
    /\ \E u \in 1..Len(rx.used) :
          rx.used[u].sht = S_Deep /\ rx.used[u].fallback /\ rx.used[u].tries = MaxSkip + 2

\* C13: a sheet the parser reports missing is reported once and not parsed
\* again: the call goes on to the next sheet of the list.
C13_SheetNotFound == rx.pc = "parse" => rx.errors = 0

\* a missing sheet has been reported and the call is to parse it again
C13_Retried ==
    /\ rx.pc = "parse"
    /\ ~HasSheet(book, rx.namelist[rx.at])
    /\ rx.errors > 1

\* the Description the ledger gives the i-th filtered row
DescriptionAt(i) == co.filtered.rows[i][ColIndex(co.filtered, N_Description)]

\* C16: once calc_outgoings has printed its report, every filtered row whose
\* Description is a key of the exact mapping is counted under the category the
\* exact rule assigns, whatever pattern rules the store holds.
C16_ExactPrecedence ==
    co.report # <<>> =>
        \A i \in 1..NRows(co.filtered) :
            (IsStr(DescriptionAt(i)) /\ HasKey(co.loaded.categories, DescriptionAt(i).s)) =>
                /\ UnderLabel(co.ac.rows[i],
                              Lookup(co.loaded.categories, DescriptionAt(i).s))
                /\ HasKey(co.report, Lookup(co.loaded.categories, DescriptionAt(i).s))

\* the last answer the loop has taken, and whether it named a category for an
\* item (it was not empty, q or r)
LastAnswer == co.answers[Len(co.answers)]
NamedCategory ==
    /\ co.pc \in {"prompt", "done", "raised"}
    /\ co.answers # <<>>
    /\ LastAnswer.category # <<>>
    /\ str_lower(LastAnswer.category) \notin {<<"q">>, <<"r">>}

\* the categories displayed before the first prompt: the distinct labels, sorted
DisplayedAtStart ==
    sorted(Range(values(co.loaded.categories) \o values(co.loaded.regexes)))

\* C17: a numeric answer n assigns the item to the category displayed with
\* index n; a number that is no displayed index (0 or more than the number of
\* categories) is reported as invalid and assigns nothing; any other answer
\* assigns the item to a new category that is listed after the existing ones,
\* whose indices stay as they were.
C17_CategorySelection ==
    NamedCategory =>
        IF IsIntText(LastAnswer.category)
        THEN IF int(LastAnswer.category) \in 1..Len(co.all_categories)
             THEN /\ HasKey(co.config.categories, LastAnswer.item)
                  /\ Lookup(co.config.categories, LastAnswer.item)
                        = co.all_categories[int(LastAnswer.category)]
             ELSE /\ co.said = "Category is invalid."
                  /\ HasKey(co.config.categories, LastAnswer.item)
                        = HasKey(co.loaded.categories, LastAnswer.item)
                  /\ HasKey(co.config.categories, LastAnswer.item) =>
                        Lookup(co.config.categories, LastAnswer.item)
                            = Lookup(co.loaded.categories, LastAnswer.item)
        ELSE /\ HasKey(co.config.categories, LastAnswer.item)
             /\ Lookup(co.config.categories, LastAnswer.item) = LastAnswer.category
             /\ co.all_categories[Len(co.all_categories)] = LastAnswer.category
             /\ SubSeq(co.all_categories, 1, Len(DisplayedAtStart)) = DisplayedAtStart

\* the answers before the last one
EarlierAnswers == SubSeq(co.answers, 1, Len(co.answers) - 1)

\* the pattern compiles and is found in the text of the item
Accepts(pattern, item) == ~re_error(pattern) /\ re_search(pattern, item)

\* the sub-flow of the answer r has ended with the answer for the category
SubFlowEnded ==
    /\ co.pc \in {"prompt", "done", "raised"}
    /\ co.answers # <<>>
    /\ LastAnswer.category = <<"r">>

StorePersisted == LoopEnded /\ co.pc = "done"

\* the answer has left a rule in the store: an exact rule for the text of the
\* item, or a rule for a pattern that is_valid_regex took for the item
Recorded(a) ==
    IF a.category = <<"r">> THEN HasKey(store.config.regexes, a.pattern)
    ELSE HasKey(store.config.categories, a.item)

CategoryOf(a) ==
    IF a.category = <<"r">> THEN Lookup(store.config.regexes, a.pattern)
    ELSE Lookup(store.config.categories, a.item)

\* a run of calc_outgoings over the same ledger with the store as it is now
LaterRun ==
    calc_outgoings(statement, store, FALSE, FALSE, co.date_from, co.date_to).co

\* C19: once a learning loop has recorded an item under a category, by an
\* exact rule or by a pattern rule, and has written the store, a later run over
\* the same ledger counts every row of that item under the category and does
\* not list the item as unknown.
C19_LearnedRules ==
    StorePersisted =>
        \A later \in {LaterRun} :
            \A k \in 1..Len(co.answers) :
                Recorded(co.answers[k]) =>
                    /\ co.answers[k].item \notin Range(later.unknown)
                    /\ HasKey(later.report, CategoryOf(co.answers[k]))
                    /\ \A i \in 1..NRows(later.filtered) :
                          later.filtered.rows[i][ColIndex(later.filtered, N_Description)]
                              = Str(co.answers[k].item)
                          => later.ac.rows[i][ColIndex(later.ac, N_Description)]
                              = Str(CategoryOf(co.answers[k]))
====
